---- MODULE Spec2Model ----
(***************************************************************************)
(* The voice modulator (voice_mod_experimental.py, the push-to-talk        *)
(* variant): the control loop of main() and the real-time audio_callback   *)
(* running concurrently on the shared one-element lists, with the carrier  *)
(* wavetable cursor of apply_robotic_effect.                               *)
(*                                                                         *)
(* Numbers.  Pitch is kept in tenths of a semitone (3.0 -> 30, 0.5 -> 5,   *)
(* 0.1 -> 1).  A sample is kept in units of 1/ONE, ONE = 5120, so that     *)
(* 0.95, 0.9, 1.5, 2.2 and the 10-bit quantisation step 1/1024 are all     *)
(* whole numbers of units.                                                 *)
(*                                                                         *)
(* Arrays.  Every array operation of the callback except the FFT inside    *)
(* pitch_shift_fast is element-wise, so a numpy array is kept as its       *)
(* length and one element: [len |-> n, at |-> j, val |-> v] is an array of *)
(* n samples whose element j is v; j is chosen freely when the driver      *)
(* delivers the block.  A carrier segment is kept as the list of table     *)
(* slices it was concatenated from.                                        *)
(***************************************************************************)
EXTENDS Integers, Sequences, FiniteSets, TLC

\* ---------------------------------------------------------------- constants
SAMPLE_RATE == 48000
BLOCK_SIZE == 256
PITCH_SHIFT == 30
carrier_table_size == 4800
CARRIER_HZ == 95
ONE == 5 * 1024

\* ------------------------------------------------------------------- bounds
\* callbacks the running stream makes in one run of the program
StreamCalls == 2
\* callbacks made in one run of the callback driven directly
EngineCalls == 2
\* pitch stays within PITCH_SHIFT - 5*MaxDown .. PITCH_SHIFT + 5*MaxUp
MaxDown == 6
MaxUp == 0
\* carrier segments requested in one run of the oscillator on its own
MaxRequests == 3

PitchLo == PITCH_SHIFT - 5 * MaxDown
PitchHi == PITCH_SHIFT + 5 * MaxUp

\* ----------------------------------------------------------------- numerics
Abs(x) == IF x < 0 THEN -x ELSE x
Min(a, b) == IF a < b THEN a ELSE b
Max(a, b) == IF a < b THEN b ELSE a
Sign(x) == IF x < 0 THEN -1 ELSE 1

\* a / b rounded to the nearest integer, halves to the even one (numpy.round)
RoundDiv(a, b) ==
  LET q == Abs(a) \div b
      r == Abs(a) % b
      up == (2 * r > b) \/ (2 * r = b /\ q % 2 = 1)
  IN Sign(a) * (IF up THEN q + 1 ELSE q)

\* x * num / den on samples, rounded to the nearest unit
Scale(x, num, den) == RoundDiv(x * num, den)

RECURSIVE Log2(_)
\* floor(log2(n)) for n >= 1
Log2(n) == IF n <= 1 THEN 0 ELSE 1 + Log2(n \div 2)

\* ------------------------------------------------------------------- arrays
\* the array of n samples whose element j is v
Arr(n, j, v) == [len |-> n, at |-> j, val |-> v]

\* numpy broadcasting of two 1-d shapes
Broadcasts(n, m) == n = m \/ n = 1 \/ m = 1

\* carrier_table[lo:hi] for lo, hi >= 0: the table indices lo .. hi-1, cut at
\* the table's end; empty when nothing is left
NpSlice(lo, hi) ==
  LET f == Min(lo, carrier_table_size)
      t == Max(f, Min(hi, carrier_table_size))
  IN [from |-> f, to |-> t]

SliceLen(s) == s.to - s.from

RECURSIVE CarrierLen(_)
\* len() of a concatenation of table slices
CarrierLen(c) == IF c = <<>> THEN 0 ELSE SliceLen(Head(c)) + CarrierLen(Tail(c))

RECURSIVE CarrierAt(_, _)
\* the table index that element j (from 0) of a concatenation of table slices
\* was read from; j < CarrierLen(c)
CarrierAt(c, j) ==
  IF j < SliceLen(Head(c)) THEN Head(c).from + j
  ELSE CarrierAt(Tail(c), j - SliceLen(Head(c)))

\* carrier_table[i] = sin(2 pi 95 i / 48000), in sample units.  The sine of a
\* phase p in half a period H is taken by Bhaskara's rational formula
\* 16 p (H - p) / (5 H^2 - 4 p (H - p)), within 0.002 of the sine.
carrier_table(i) ==
  LET H == SAMPLE_RATE \div 2
      ph == (CARRIER_HZ * i) % SAMPLE_RATE
      p == ph % H
      t == (p * (H - p)) \div 25000
      s == RoundDiv(16 * t * ONE, 5 * ((H * H) \div 25000) - 4 * t)
  IN IF ph < H THEN s ELSE -s

\* ---------------------------------------------------------- robotic effect
\* audio * carrier * intensity + audio * (1 - intensity), intensity = 0.7
RingMod(x, c) == RoundDiv(x * c * 7 + x * ONE * 3, 10 * ONE)

\* np.round(m * 2^10) / 2^10
BitReduce(m) == RoundDiv(m, ONE \div 1024) * (ONE \div 1024)

\* tanh(z) by the Pade quotient z (15 + z^2) / (15 + 6 z^2), kept within +-1
Tanh(z) ==
  LET zz == (z * z) \div ONE
      t == RoundDiv(z * (15 * ONE + zz), 15 * ONE + 6 * zz)
  IN Max(-ONE, Min(ONE, t))

\* np.tanh(m * 1.2) * 0.9
SoftClip(m) == Scale(Tanh(Scale(m, 12, 10)), 9, 10)

\* the head is read from the table's second sample on
CarrierSegmentSkipsFirst(start_idx, end_idx) ==
  IF end_idx <= carrier_table_size
  THEN <<NpSlice(start_idx, end_idx)>>
  ELSE <<NpSlice(start_idx, carrier_table_size),
         NpSlice(1, end_idx - carrier_table_size + 1)>>

\* lines 68-74: the carrier for a block that ends at end_idx, in one piece or
\* as the table's tail followed by its head
CarrierSegment(start_idx, end_idx) ==
  IF end_idx <= carrier_table_size
  THEN <<NpSlice(start_idx, end_idx)>>
  ELSE <<NpSlice(start_idx, carrier_table_size),
         NpSlice(0, end_idx - carrier_table_size)>>

\* the cursor is left where the block ended, never wrapped
NextCursorNoWrap(end_idx) == end_idx

\* the cursor is wrapped by one table length at most
NextCursorOneWrap(end_idx) ==
  IF end_idx > carrier_table_size THEN end_idx - carrier_table_size ELSE end_idx

\* line 76: where the cursor is left
NextCursor(end_idx) == end_idx % carrier_table_size

\* apply_robotic_effect(audio) with the cursor at cidx: the carrier segment it
\* reads, the cursor it leaves, and the modulated block, or raised when the
\* product audio * carrier cannot be formed
apply_robotic_effect(audio, cidx) ==
  LET start_idx == cidx
      end_idx == start_idx + audio.len
      carrier == CarrierSegment(start_idx, end_idx)
      clen == CarrierLen(carrier)
      ok == Broadcasts(audio.len, clen)
      n == IF audio.len = 1 THEN clen ELSE audio.len
      cpos == IF clen = 1 THEN 0 ELSE audio.at
      c == carrier_table(CarrierAt(carrier, cpos))
  IN [carrier_idx |-> NextCursor(end_idx),
      carrier |-> carrier,
      start |-> start_idx,
      want |-> audio.len,
      raised |-> ~ok,
      out |-> IF ~ok THEN audio
              ELSE IF n = 0 THEN Arr(0, 0, 0)
              ELSE Arr(n, audio.at, SoftClip(BitReduce(RingMod(audio.val, c))))]

\* ------------------------------------------------------------- pitch shift
\* 2.0 ** (semitones / 12.0) raises OverflowError from 2^1024 on, and
\* int(i / ratio) raises once i / ratio is infinite or ratio is 0.0, for the
\* largest bin i = n // 2
RatioRaises(semitones, n) ==
  \/ semitones >= 1024 * 120
  \/ semitones <= -1075 * 120
  \/ n \div 2 >= 1 /\ semitones <= -(1024 - Log2(n \div 2)) * 120

\* The values element `at` can have after the spectrum is remapped and the
\* block rescaled to the input's peak: the FFT mixes all the samples of the
\* block, of which only one is kept here, so the element is any value up to
\* the peak; zero, a full-scale sample and the input's mirror image are taken.
SpectralVals(audio) == {0, ONE, -audio.val}

\* a shifter that transforms whatever semitones is
ShifterNeverBypasses(semitones) == FALSE

\* line 30: the shifter's own test for returning its input as it is
ShifterBypasses(semitones) == Abs(semitones) < 1

\* pitch_shift_fast(audio, semitones): the results it can return
pitch_shift_fast(audio, semitones) ==
  IF ShifterBypasses(semitones)
  THEN {[raised |-> FALSE, out |-> audio]}
  ELSE IF RatioRaises(semitones, audio.len)
       THEN {[raised |-> TRUE, out |-> audio]}
       ELSE {[raised |-> FALSE, out |-> Arr(audio.len, audio.at, v)] :
               v \in SpectralVals(audio)}

\* ------------------------------------------------------- callback, by parts
\* an output channel, or a local, nothing has been assigned to
NoArr == Arr(0, 0, 0)

\* the gate with the talk test inverted
GatedWhileTalking(ptt, talking) == ptt /\ talking

\* line 99: the push-to-talk gate, on the two values the callback read
Gated(ptt, talking) == ptt /\ ~talking

\* np.zeros(frames): lines 101-102
Silence(n, j) == Arr(n, j, 0)

\* the callback's test with a threshold of half a semitone
WantsShiftAboveHalf(pitch) == Abs(pitch) > 5

\* line 107: the callback's own test for shifting
WantsShift(pitch) == Abs(pitch) > 1

\* lines 111-114: truncate or zero-pad the shifted block to frames samples
FixLength(a, n) ==
  IF a.len > n THEN Arr(n, a.at, a.val)
  ELSE IF a.len < n THEN Arr(n, a.at, a.val)
  ELSE a

\* the boost taken from the passthrough: 1.5
GainOfPassthrough(x) == Scale(x, 15, 10)

\* line 123: shifted * 2.2
Gain(x) == Scale(x, 22, 10)

\* line 124: np.clip(shifted, -0.95, 0.95)
ClipLimit == (ONE * 95) \div 100
Clip(x) == Max(-ClipLimit, Min(ClipLimit, x))

\* the passthrough with the processed path's clip applied to it
PassthroughClipped(m) ==
  [ch0 |-> Arr(m.len, m.at, Clip(Scale(m.val, 15, 10))),
   ch1 |-> Arr(m.len, m.at, Clip(Scale(m.val, 15, 10)))]

\* lines 132-133: mono * 1.5 to both channels
Passthrough(m) ==
  [ch0 |-> Arr(m.len, m.at, Scale(m.val, 15, 10)),
   ch1 |-> Arr(m.len, m.at, Scale(m.val, 15, 10))]

\* lines 127-128: outdata[:, c] = a needs a to broadcast to frames samples
Assignable(a, n) == a.len = n \/ a.len = 1

\* the carrier is fetched, and the cursor moved, whether the effect is enabled
\* or not
FinishAlwaysAdvances(m, sh, n, robotic, cidx) ==
  LET r == apply_robotic_effect(sh, cidx)
      a == IF robotic THEN r.out ELSE sh
      b == Arr(a.len, a.at, Clip(Gain(a.val)))
      raised == (robotic /\ r.raised) \/ ~Assignable(b, n)
  IN [carrier_idx |-> r.carrier_idx,
      called |-> robotic,
      seg |-> [start |-> r.start, want |-> r.want, carrier |-> r.carrier],
      path |-> IF raised THEN "fallback" ELSE "processed",
      outdata |-> IF raised THEN Passthrough(m)
                  ELSE [ch0 |-> Arr(n, b.at, b.val), ch1 |-> Arr(n, b.at, b.val)]]

\* lines 118-133, from the shifted block on: the robotic effect if enabled,
\* gain, clip and the two channel writes, or the passthrough of the except
\* clause when one of them raises.  The cursor moves even when the effect
\* raises afterwards (line 76 is before line 79).
Finish(m, sh, n, robotic, cidx) ==
  LET r == apply_robotic_effect(sh, cidx)
      a == IF robotic THEN r.out ELSE sh
      b == Arr(a.len, a.at, Clip(Gain(a.val)))
      raised == (robotic /\ r.raised) \/ ~Assignable(b, n)
  IN [carrier_idx |-> IF robotic THEN r.carrier_idx ELSE cidx,
      called |-> robotic,
      seg |-> [start |-> r.start, want |-> r.want, carrier |-> r.carrier],
      path |-> IF raised THEN "fallback" ELSE "processed",
      outdata |-> IF raised THEN Passthrough(m)
                  ELSE [ch0 |-> Arr(n, b.at, b.val), ch1 |-> Arr(n, b.at, b.val)]]

\* ------------------------------------------------- the three programs' starts
\* voice_mod_experimental.py lines 18-26, with main() at its first get_key()
Start_ptt ==
  [pitch |-> PITCH_SHIFT, robotic |-> TRUE, ptt |-> FALSE, talking |-> FALSE,
   pc |-> "poll", next1 |-> "None", carrier_idx |-> 0, path |-> "none",
   ran |-> {}, outdata |-> [ch0 |-> NoArr, ch1 |-> NoArr]]

\* voice_mod_high_quality.py lines 18-24
Start_hq ==
  [pitch |-> PITCH_SHIFT, robotic |-> TRUE, pc |-> "poll", next1 |-> "None",
   carrier_idx |-> 0, path |-> "none", ran |-> {},
   outdata |-> [ch0 |-> NoArr, ch1 |-> NoArr]]

\* voice_mod_separate_devices.py lines 24-30
Start_sd ==
  [pitch |-> PITCH_SHIFT, robotic |-> TRUE, pc |-> "poll", next1 |-> "None",
   carrier_idx |-> 0, path |-> "none", ran |-> {},
   outdata |-> [ch0 |-> NoArr, ch1 |-> NoArr]]

\* the three side by side: no key read and no block delivered yet
Variants0 ==
  [ptt |-> Start_ptt, hq |-> Start_hq, sd |-> Start_sd, calls |-> 0,
   clean |-> TRUE]

\* no key read yet: net is the presses that raise the pitch less those that
\* lower it since the last 0, arrow is how much of ESC [ the last keys are,
\* printed is whether the last key read had print_status() called
Keylog0 == [net |-> 0, arrow |-> 0, printed |-> FALSE]

\* -------------------------------------------------------------------- state
VARIABLES
  current_pitch,          \* current_pitch[0], tenths of a semitone
  robotic_enabled,        \* robotic_enabled[0]
  push_to_talk_enabled,   \* push_to_talk_enabled[0]
  is_talking,             \* is_talking[0]
  carrier_idx,            \* carrier_idx[0]
  main_pc,                \* where main() is
  next1,                  \* main's local next1
  stream,                 \* the sd.Stream: "unopened", "active", "closed"
  cb_pc,                  \* where the running audio_callback is, or "idle"
  frames,                 \* the callback's frames
  mono,                   \* the callback's mono
  shifted,                \* the callback's shifted
  outdata,                \* the callback's outdata, two channels
  seg,                    \* the carrier segment of the last apply_robotic_effect
  path,                   \* how the last callback ended
  ran,                    \* the pipeline stages the last callback ran
  calls,                  \* callbacks made so far
  total,                  \* samples of carrier requested so far
  cursor0,                \* the cursor the run started with
  faults,                 \* callbacks that ended in the except clause
  released,               \* times the stream was stopped and closed
  exit_reason,            \* why the control loop was left
  gate_held,              \* whether push-to-talk was on and is_talking off
                          \* at some instant of the last callback up to its
                          \* gate
  variants,               \* the three programs run side by side as functions
  keylog                  \* what the keys read so far amount to

params == <<current_pitch, robotic_enabled, push_to_talk_enabled, is_talking>>
control == <<main_pc, next1, stream, released, exit_reason>>
audio == <<cb_pc, frames, mono, shifted, outdata, seg, path, ran, calls, total,
           carrier_idx, faults>>
machines == <<variants, keylog>>
aside == <<cursor0, gate_held, machines>>
vars == <<params, control, audio, aside>>

NoKey == "None"
Keys == {"q", "r", "R", "p", "P", " ", "+", "=", "-", "_", "0", "ESC", "[",
         "A", "B", "x"}
NoSeg == [start |-> 0, want |-> 0, carrier |-> <<>>]
NoOut == [ch0 |-> NoArr, ch1 |-> NoArr]

\* The state when main() is entered: the module-level assignments, lines 18-26
Init ==
  /\ gate_held = FALSE
  /\ variants = Variants0
  /\ keylog = Keylog0
  /\ current_pitch = PITCH_SHIFT
  /\ robotic_enabled = TRUE
  /\ push_to_talk_enabled = FALSE
  /\ is_talking = FALSE
  /\ carrier_idx = 0
  /\ main_pc = "start"
  /\ next1 = NoKey
  /\ stream = "unopened"
  /\ cb_pc = "idle"
  /\ frames = 0
  /\ mono = NoArr
  /\ shifted = NoArr
  /\ outdata = NoOut
  /\ seg = NoSeg
  /\ path = "none"
  /\ ran = {}
  /\ calls = 0
  /\ total = 0
  /\ cursor0 = 0
  /\ faults = 0
  /\ released = 0
  /\ exit_reason = "none"

\* ----------------------------------------------------------- audio callback
\* the gate entered whatever push_to_talk_enabled is
CallbackEnterAlwaysGates(n, j, v) ==
  /\ cb_pc = "idle"
  /\ calls' = calls + 1
  /\ frames' = n
  /\ mono' = Arr(n, j, v)
  /\ shifted' = NoArr
  /\ outdata' = NoOut
  /\ path' = "running"
  /\ ran' = {}
  /\ cb_pc' = "gate"
  /\ gate_held' = (push_to_talk_enabled /\ ~is_talking)
  /\ UNCHANGED <<params, control, seg, total, carrier_idx, cursor0, machines,
                 faults>>

\* The driver calls audio_callback(indata, outdata, frames, ...) with a block
\* of n samples whose element j is v.  Lines 96-99: mono is taken and
\* push_to_talk_enabled[0] is read; `and` reads is_talking[0] only when it
\* is true.
CallbackEnter(n, j, v) ==
  /\ cb_pc = "idle"
  /\ calls' = calls + 1
  /\ frames' = n
  /\ mono' = Arr(n, j, v)
  /\ shifted' = NoArr
  /\ outdata' = NoOut
  /\ path' = "running"
  /\ ran' = {}
  /\ cb_pc' = IF push_to_talk_enabled THEN "gate" ELSE "pitch_test"
  /\ gate_held' = (push_to_talk_enabled /\ ~is_talking)
  /\ UNCHANGED <<params, control, seg, total, carrier_idx, cursor0, machines,
                 faults>>

\* Lines 99-103: is_talking[0] is read; the block is silenced and the
\* callback returns, or goes on.
CallbackGate ==
  /\ cb_pc = "gate"
  /\ IF Gated(TRUE, is_talking)
     THEN /\ outdata' = [ch0 |-> Silence(frames, mono.at),
                         ch1 |-> Silence(frames, mono.at)]
          /\ path' = "muted"
          /\ cb_pc' = "idle"
     ELSE /\ cb_pc' = "pitch_test"
          /\ UNCHANGED <<outdata, path>>
  /\ gate_held' = (gate_held /\ Gated(TRUE, is_talking))
  /\ UNCHANGED <<params, control, frames, mono, shifted, seg, ran, calls, total,
                 carrier_idx, cursor0, machines, faults>>

\* Line 107 (and 116): current_pitch[0] is read for the threshold test.
CallbackPitchTest ==
  /\ cb_pc = "pitch_test"
  /\ IF WantsShift(current_pitch)
     THEN /\ cb_pc' = "pitch_arg"
          /\ UNCHANGED shifted
     ELSE /\ cb_pc' = "robotic"
          /\ shifted' = mono
  /\ UNCHANGED <<params, control, frames, mono, outdata, seg, path, ran, calls,
                 total, carrier_idx, aside, faults>>

\* Lines 108-114, and 130-133 when the shifter raises: current_pitch[0] is
\* read again as the shifter's argument.
CallbackShift ==
  /\ cb_pc = "pitch_arg"
  /\ \E r \in pitch_shift_fast(mono, current_pitch) :
       IF r.raised
       THEN /\ outdata' = Passthrough(mono)
            /\ path' = "fallback"
            /\ faults' = faults + 1
            /\ cb_pc' = "idle"
            /\ UNCHANGED shifted
       ELSE /\ shifted' = FixLength(r.out, frames)
            /\ cb_pc' = "robotic"
            /\ UNCHANGED <<outdata, path, faults>>
  /\ ran' = ran \cup {"shift"}
  /\ UNCHANGED <<params, control, frames, mono, seg, calls, total, carrier_idx,
                 aside>>

\* Lines 119-133: robotic_enabled[0] is read, and the rest of the callback
\* touches nothing the control thread writes.
CallbackFinish ==
  /\ cb_pc = "robotic"
  /\ LET f == Finish(mono, shifted, frames, robotic_enabled, carrier_idx)
     IN /\ carrier_idx' = f.carrier_idx
        /\ seg' = IF f.called THEN f.seg ELSE seg
        /\ total' = IF f.called THEN total + f.seg.want ELSE total
        /\ ran' = ran \cup (IF f.called THEN {"robotic"} ELSE {})
                      \cup (IF f.path = "processed" THEN {"gain"} ELSE {})
        /\ path' = f.path
        /\ faults' = IF f.path = "fallback" THEN faults + 1 ELSE faults
        /\ outdata' = f.outdata
  /\ shifted' = NoArr
  /\ cb_pc' = "idle"
  /\ UNCHANGED <<params, control, frames, mono, calls, aside>>

\* ------------------------------------------------------------ control thread
LoopPcs == {"poll", "ptt_reset", "next1", "next2"}

\* Lines 168-176: the stream is opened and started on entering the with
\* block, or sd.Stream raises and main() ends in its except clause.
OpenStream ==
  /\ main_pc = "start"
  /\ \E ok \in BOOLEAN :
       IF ok
       THEN /\ stream' = "active"
            /\ main_pc' = "poll"
            /\ UNCHANGED exit_reason
       ELSE /\ main_pc' = "done"
            /\ exit_reason' = "device"
            /\ UNCHANGED stream
  /\ UNCHANGED <<params, audio, aside, next1, released>>

\* the keys with space toggling is_talking whether push-to-talk is on or not
OnKeySpaceAlways(key, p) ==
  LET same == [pitch |-> p.pitch, robotic |-> p.robotic, ptt |-> p.ptt,
               talking |-> p.talking, pc |-> "poll"]
  IN IF key = NoKey THEN same
     ELSE IF key = "q" THEN [same EXCEPT !.pc = "exit"]
     ELSE IF key = "r" \/ key = "R" THEN [same EXCEPT !.robotic = ~p.robotic]
     ELSE IF key = "p" \/ key = "P"
          THEN [same EXCEPT !.ptt = ~p.ptt,
                            !.pc = IF p.ptt THEN "ptt_reset" ELSE "poll"]
     ELSE IF key = " " THEN [same EXCEPT !.talking = ~p.talking]
     ELSE IF key = "+" \/ key = "=" THEN [same EXCEPT !.pitch = p.pitch + 5]
     ELSE IF key = "-" \/ key = "_" THEN [same EXCEPT !.pitch = p.pitch - 5]
     ELSE IF key = "0" THEN [same EXCEPT !.pitch = PITCH_SHIFT]
     ELSE IF key = "ESC" THEN [same EXCEPT !.pc = "next1"]
     ELSE same

\* Lines 180-205: what the key read at the top of the loop does to the four
\* parameters p, and where main() goes next.  A key that matches no branch,
\* and no key at all, changes nothing.
OnKey(key, p) ==
  LET same == [pitch |-> p.pitch, robotic |-> p.robotic, ptt |-> p.ptt,
               talking |-> p.talking, pc |-> "poll"]
  IN IF key = NoKey THEN same
     ELSE IF key = "q" THEN [same EXCEPT !.pc = "exit"]
     ELSE IF key = "r" \/ key = "R" THEN [same EXCEPT !.robotic = ~p.robotic]
     ELSE IF key = "p" \/ key = "P"
          THEN [same EXCEPT !.ptt = ~p.ptt,
                            !.pc = IF p.ptt THEN "ptt_reset" ELSE "poll"]
     ELSE IF key = " "
          THEN IF p.ptt THEN [same EXCEPT !.talking = ~p.talking] ELSE same
     ELSE IF key = "+" \/ key = "=" THEN [same EXCEPT !.pitch = p.pitch + 5]
     ELSE IF key = "-" \/ key = "_" THEN [same EXCEPT !.pitch = p.pitch - 5]
     ELSE IF key = "0" THEN [same EXCEPT !.pitch = PITCH_SHIFT]
     ELSE IF key = "ESC" THEN [same EXCEPT !.pc = "next1"]
     ELSE same

\* Lines 208-214: the two keys read after an ESC
OnEscape(n1, n2, pitch) ==
  IF n1 = "["
  THEN IF n2 = "A" THEN pitch + 5
       ELSE IF n2 = "B" THEN pitch - 5
       ELSE pitch
  ELSE pitch

\* Line 178 and the branch it selects: key is what get_key() returned
GetKey(key) ==
  /\ main_pc = "poll"
  /\ LET e == OnKey(key, [pitch |-> current_pitch, robotic |-> robotic_enabled,
                          ptt |-> push_to_talk_enabled, talking |-> is_talking])
     IN /\ e.pitch \in PitchLo..PitchHi
        /\ current_pitch' = e.pitch
        /\ robotic_enabled' = e.robotic
        /\ push_to_talk_enabled' = e.ptt
        /\ is_talking' = e.talking
        /\ main_pc' = e.pc
        /\ exit_reason' = IF e.pc = "exit" THEN "quit" ELSE exit_reason
        /\ gate_held' = IF cb_pc = "gate"
                        THEN gate_held \/ (e.ptt /\ ~e.talking)
                        ELSE gate_held
  /\ UNCHANGED <<audio, cursor0, machines, next1, stream, released>>

\* the reset of the talk state also rewinds the carrier
PttResetRewinds ==
  /\ main_pc = "ptt_reset"
  /\ is_talking' = FALSE
  /\ carrier_idx' = 0
  /\ main_pc' = "poll"
  /\ gate_held' = IF cb_pc = "gate"
                  THEN gate_held \/ push_to_talk_enabled
                  ELSE gate_held
  /\ UNCHANGED <<current_pitch, robotic_enabled, push_to_talk_enabled, cb_pc,
                 frames, mono, shifted, outdata, seg, path, ran, calls, total,
                 faults, cursor0, machines, next1, stream, released,
                 exit_reason>>

\* the talk state is left as it was
PttResetKeepsTalking ==
  /\ main_pc = "ptt_reset"
  /\ main_pc' = "poll"
  /\ UNCHANGED <<params, audio, aside, next1, stream, released, exit_reason>>

\* Lines 189-191: after p has switched push-to-talk off
PttReset ==
  /\ main_pc = "ptt_reset"
  /\ is_talking' = FALSE
  /\ main_pc' = "poll"
  /\ gate_held' = IF cb_pc = "gate"
                  THEN gate_held \/ push_to_talk_enabled
                  ELSE gate_held
  /\ UNCHANGED <<current_pitch, robotic_enabled, push_to_talk_enabled, audio,
                 cursor0, machines, next1, stream, released, exit_reason>>

\* Line 206: next1 = get_key()
ReadNext1(key) ==
  /\ main_pc = "next1"
  /\ next1' = key
  /\ main_pc' = "next2"
  /\ UNCHANGED <<params, audio, aside, stream, released, exit_reason>>

\* Lines 207-214: next2 = get_key(), and the arrow keys
ReadNext2(key) ==
  /\ main_pc = "next2"
  /\ OnEscape(next1, key, current_pitch) \in PitchLo..PitchHi
  /\ current_pitch' = OnEscape(next1, key, current_pitch)
  /\ next1' = NoKey
  /\ main_pc' = "poll"
  /\ UNCHANGED <<robotic_enabled, push_to_talk_enabled, is_talking, audio,
                 aside, stream, released, exit_reason>>

\* the interrupt handled with the stream left as it is
InterruptSkipsClose ==
  /\ main_pc \in LoopPcs
  /\ main_pc' = "done"
  /\ exit_reason' = "interrupt"
  /\ UNCHANGED <<params, audio, aside, next1, stream, released>>

\* Line 216: KeyboardInterrupt, raised in the main thread anywhere in the loop
Interrupt ==
  /\ main_pc \in LoopPcs
  /\ main_pc' = "exit"
  /\ exit_reason' = "interrupt"
  /\ UNCHANGED <<params, audio, aside, next1, stream, released>>

\* Line 218: get_key() raises (termios, select or the read)
GetKeyRaises ==
  /\ main_pc \in {"poll", "next1", "next2"}
  /\ main_pc' = "exit"
  /\ exit_reason' = "error"
  /\ UNCHANGED <<params, audio, aside, next1, stream, released>>

\* Leaving the with block of lines 169-176 by break or by an exception:
\* Stream.__exit__ stops and closes the stream, which waits for a callback
\* that is running to return; no callback is made afterwards.
CloseStream ==
  /\ main_pc = "exit"
  /\ cb_pc = "idle"
  /\ stream' = "closed"
  /\ released' = released + 1
  /\ main_pc' = "done"
  /\ UNCHANGED <<params, audio, aside, next1, exit_reason>>

\* ------------------------------------------------------------ specifications
\* element positions followed in a block of n samples: its first and its last
ProbeAt(n) == {0, n - 1}

\* sample values delivered by the driver: silence, a quiet, a loud and a
\* full-scale negative sample
Samples == {0, ONE \div 10, ONE, -ONE}

\* the samples followed in the running program: a quiet and a full-scale one
StreamSamples == {ONE \div 10, -ONE}

\* The running stream calls the callback with blocksize = BLOCK_SIZE frames
\* (line 171) while it is active.
DriverCallback ==
  /\ stream = "active"
  /\ calls < StreamCalls
  /\ \E v \in StreamSamples : CallbackEnter(BLOCK_SIZE, BLOCK_SIZE - 1, v)

ControlThread ==
  \/ OpenStream
  \/ \E key \in Keys \cup {NoKey} : GetKey(key)
  \/ PttReset
  \/ \E key \in Keys \cup {NoKey} : ReadNext1(key)
  \/ \E key \in Keys \cup {NoKey} : ReadNext2(key)
  \/ Interrupt
  \/ GetKeyRaises
  \/ CloseStream

CallbackSteps ==
  \/ CallbackGate
  \/ CallbackPitchTest
  \/ CallbackShift
  \/ CallbackFinish

AudioThread == DriverCallback \/ CallbackSteps

Next == ControlThread \/ AudioThread

Spec == Init /\ [][Next]_vars

\* ---------------------------------------------- the callback driven directly
\* audio_callback called as a function, on blocks of any length, with the
\* parameters at any values the keys can give them and no key pressed
\* meanwhile.
BlockLens == {BLOCK_SIZE, carrier_table_size - BLOCK_SIZE, carrier_table_size,
              2 * carrier_table_size, 2 * carrier_table_size + BLOCK_SIZE}

Pitches == {p \in PitchLo..PitchHi : p % 5 = 0}

InitEngine ==
  /\ gate_held = FALSE
  /\ variants = Variants0
  /\ keylog = Keylog0
  /\ current_pitch \in Pitches
  /\ robotic_enabled \in BOOLEAN
  /\ push_to_talk_enabled \in BOOLEAN
  /\ is_talking \in BOOLEAN
  /\ carrier_idx = 0
  /\ main_pc = "poll"
  /\ next1 = NoKey
  /\ stream = "active"
  /\ cb_pc = "idle"
  /\ frames = 0
  /\ mono = NoArr
  /\ shifted = NoArr
  /\ outdata = NoOut
  /\ seg = NoSeg
  /\ path = "none"
  /\ ran = {}
  /\ calls = 0
  /\ total = 0
  /\ cursor0 = 0
  /\ faults = 0
  /\ released = 0
  /\ exit_reason = "none"

EngineCallback ==
  /\ calls < EngineCalls
  /\ \E n \in BlockLens : \E j \in ProbeAt(n), v \in Samples : CallbackEnter(n, j, v)

NextEngine == EngineCallback \/ CallbackSteps

SpecEngine == InitEngine /\ [][NextEngine]_vars

\* ------------------------------------------------- the oscillator on its own
\* apply_robotic_effect called as a function on blocks of any length, from
\* any cursor the program's 256-sample blocks can leave.
StartCursors == {0, BLOCK_SIZE, carrier_table_size - BLOCK_SIZE}

SegLens == {0, 1, BLOCK_SIZE, carrier_table_size - BLOCK_SIZE,
            carrier_table_size, carrier_table_size + BLOCK_SIZE,
            2 * carrier_table_size, 2 * carrier_table_size + BLOCK_SIZE}

InitCarrier ==
  /\ gate_held = FALSE
  /\ variants = Variants0
  /\ keylog = Keylog0
  /\ current_pitch = PITCH_SHIFT
  /\ robotic_enabled = TRUE
  /\ push_to_talk_enabled = FALSE
  /\ is_talking = FALSE
  /\ carrier_idx \in StartCursors
  /\ cursor0 = carrier_idx
  /\ faults = 0
  /\ main_pc = "poll"
  /\ next1 = NoKey
  /\ stream = "active"
  /\ cb_pc = "idle"
  /\ frames = 0
  /\ mono = NoArr
  /\ shifted = NoArr
  /\ outdata = NoOut
  /\ seg = NoSeg
  /\ path = "none"
  /\ ran = {}
  /\ calls = 0
  /\ total = 0
  /\ released = 0
  /\ exit_reason = "none"

\* shifted = apply_robotic_effect(audio) on a block of n samples (lines 59-88)
CarrierRequest(n) ==
  /\ calls < MaxRequests
  /\ LET r == apply_robotic_effect(Arr(n, 0, ONE), carrier_idx)
     IN /\ carrier_idx' = r.carrier_idx
        /\ seg' = [start |-> r.start, want |-> r.want, carrier |-> r.carrier]
        /\ shifted' = r.out
        /\ path' = IF r.raised THEN "raised" ELSE "returned"
  /\ total' = total + n
  /\ calls' = calls + 1
  /\ UNCHANGED <<params, control, cb_pc, frames, mono, outdata, ran, aside,
                 faults>>

NextCarrier == \E n \in SegLens : CarrierRequest(n)

SpecCarrier == InitCarrier /\ [][NextCarrier]_vars

\* ------------------------------------------- the control loops, key by key
\* Lines 185-204 of voice_mod_experimental.py: whether the branch taken for
\* key at the top of the loop calls print_status()
Notifies(key, p) ==
  \/ key \in {"r", "R", "p", "P", "+", "=", "-", "_", "0"}
  \/ key = " " /\ p.ptt

\* Lines 211 and 214: print_status() after an arrow key
EscapeNotifies(n1, n2) == n1 = "[" /\ n2 \in {"A", "B"}

\* main() of voice_mod_experimental.py from one return of get_key() to the
\* next call of it, with nothing running in between: c is where the loop is
\* and what the parameters are, key what get_key() returned
MainLoop_ptt(c, key) ==
  IF c.pc = "poll"
  THEN LET e == OnKey(key, c)
       IN [c EXCEPT !.pitch = e.pitch, !.robotic = e.robotic, !.ptt = e.ptt,
                    !.talking = IF e.pc = "ptt_reset" THEN FALSE ELSE e.talking,
                    !.pc = IF e.pc = "ptt_reset" THEN "poll" ELSE e.pc]
  ELSE IF c.pc = "next1" THEN [c EXCEPT !.next1 = key, !.pc = "next2"]
  ELSE IF c.pc = "next2"
       THEN [c EXCEPT !.pitch = OnEscape(c.next1, key, c.pitch),
                      !.next1 = NoKey, !.pc = "poll"]
  ELSE c

\* the keys of the high-quality program with + and = a whole semitone up
OnKey_hq_WholeStep(key, p) ==
  LET same == [pitch |-> p.pitch, robotic |-> p.robotic, pc |-> "poll"]
  IN IF key = NoKey THEN same
     ELSE IF key = "q" THEN [same EXCEPT !.pc = "exit"]
     ELSE IF key = "r" \/ key = "R" THEN [same EXCEPT !.robotic = ~p.robotic]
     ELSE IF key = "+" \/ key = "=" THEN [same EXCEPT !.pitch = p.pitch + 10]
     ELSE IF key = "-" \/ key = "_" THEN [same EXCEPT !.pitch = p.pitch - 5]
     ELSE IF key = "0" THEN [same EXCEPT !.pitch = PITCH_SHIFT]
     ELSE IF key = "ESC" THEN [same EXCEPT !.pc = "next1"]
     ELSE same

\* voice_mod_high_quality.py lines 165-181: the key read at the top of the loop
OnKey_hq(key, p) ==
  LET same == [pitch |-> p.pitch, robotic |-> p.robotic, pc |-> "poll"]
  IN IF key = NoKey THEN same
     ELSE IF key = "q" THEN [same EXCEPT !.pc = "exit"]
     ELSE IF key = "r" \/ key = "R" THEN [same EXCEPT !.robotic = ~p.robotic]
     ELSE IF key = "+" \/ key = "=" THEN [same EXCEPT !.pitch = p.pitch + 5]
     ELSE IF key = "-" \/ key = "_" THEN [same EXCEPT !.pitch = p.pitch - 5]
     ELSE IF key = "0" THEN [same EXCEPT !.pitch = PITCH_SHIFT]
     ELSE IF key = "ESC" THEN [same EXCEPT !.pc = "next1"]
     ELSE same

\* voice_mod_high_quality.py lines 184-190
OnEscape_hq(n1, n2, pitch) ==
  IF n1 = "["
  THEN IF n2 = "A" THEN pitch + 5
       ELSE IF n2 = "B" THEN pitch - 5
       ELSE pitch
  ELSE pitch

\* main() of voice_mod_high_quality.py from one return of get_key() to the
\* next call of it
MainLoop_hq(c, key) ==
  IF c.pc = "poll"
  THEN LET e == OnKey_hq(key, c)
       IN [c EXCEPT !.pitch = e.pitch, !.robotic = e.robotic, !.pc = e.pc]
  ELSE IF c.pc = "next1" THEN [c EXCEPT !.next1 = key, !.pc = "next2"]
  ELSE IF c.pc = "next2"
       THEN [c EXCEPT !.pitch = OnEscape_hq(c.next1, key, c.pitch),
                      !.next1 = NoKey, !.pc = "poll"]
  ELSE c

\* voice_mod_separate_devices.py lines 176-192: the key read at the top of the
\* loop
OnKey_sd(key, p) ==
  LET same == [pitch |-> p.pitch, robotic |-> p.robotic, pc |-> "poll"]
  IN IF key = NoKey THEN same
     ELSE IF key = "q" THEN [same EXCEPT !.pc = "exit"]
     ELSE IF key = "r" \/ key = "R" THEN [same EXCEPT !.robotic = ~p.robotic]
     ELSE IF key = "+" \/ key = "=" THEN [same EXCEPT !.pitch = p.pitch + 5]
     ELSE IF key = "-" \/ key = "_" THEN [same EXCEPT !.pitch = p.pitch - 5]
     ELSE IF key = "0" THEN [same EXCEPT !.pitch = PITCH_SHIFT]
     ELSE IF key = "ESC" THEN [same EXCEPT !.pc = "next1"]
     ELSE same

\* voice_mod_separate_devices.py lines 195-201
OnEscape_sd(n1, n2, pitch) ==
  IF n1 = "["
  THEN IF n2 = "A" THEN pitch + 5
       ELSE IF n2 = "B" THEN pitch - 5
       ELSE pitch
  ELSE pitch

\* main() of voice_mod_separate_devices.py from one return of get_key() to the
\* next call of it
MainLoop_sd(c, key) ==
  IF c.pc = "poll"
  THEN LET e == OnKey_sd(key, c)
       IN [c EXCEPT !.pitch = e.pitch, !.robotic = e.robotic, !.pc = e.pc]
  ELSE IF c.pc = "next1" THEN [c EXCEPT !.next1 = key, !.pc = "next2"]
  ELSE IF c.pc = "next2"
       THEN [c EXCEPT !.pitch = OnEscape_sd(c.next1, key, c.pitch),
                      !.next1 = NoKey, !.pc = "poll"]
  ELSE c

\* the same key returned by get_key() in each of the three programs
KeyInAll(v, key) ==
  [v EXCEPT !.ptt = MainLoop_ptt(v.ptt, key),
            !.hq = MainLoop_hq(v.hq, key),
            !.sd = MainLoop_sd(v.sd, key),
            !.clean = v.clean /\ key \notin {"p", "P", " "}]

\* What the keys read amount to once key is read with the loop at c: the
\* presses counted as the key table counts them (ESC [ A and ESC [ B are the
\* arrows wherever the three keys are read), and whether print_status() is
\* called for this key.
KeyLog(l, key, c) ==
  [net |-> IF key \in {"+", "="} THEN l.net + 1
           ELSE IF key \in {"-", "_"} THEN l.net - 1
           ELSE IF key = "0" THEN 0
           ELSE IF key = "A" /\ l.arrow = 2 THEN l.net + 1
           ELSE IF key = "B" /\ l.arrow = 2 THEN l.net - 1
           ELSE l.net,
   arrow |-> IF key = NoKey THEN l.arrow
             ELSE IF key = "ESC" THEN 1
             ELSE IF key = "[" /\ l.arrow = 1 THEN 2
             ELSE 0,
   printed |-> IF c.pc = "poll" THEN Notifies(key, c)
               ELSE IF c.pc = "next2" THEN EscapeNotifies(c.next1, key)
               ELSE FALSE]

\* get_key() returns key in the control loop (line 178, 206 or 207)
KeysStep(key) ==
  /\ variants.ptt.pc \in {"poll", "next1", "next2"}
  /\ LET v == KeyInAll(variants, key)
         l == KeyLog(keylog, key, variants.ptt)
     IN /\ v.ptt.pitch \in PitchLo..PitchHi
        /\ v.hq.pitch \in PitchLo..PitchHi
        /\ v.sd.pitch \in PitchLo..PitchHi
        /\ l.net \in (-MaxDown)..MaxUp
        /\ variants' = v
        /\ keylog' = l
  /\ UNCHANGED <<params, control, audio, cursor0, gate_held>>

NextKeys == \E key \in Keys \cup {NoKey} : KeysStep(key)

SpecKeys == Init /\ [][NextKeys]_vars

\* --------------------------------------- the three programs, side by side
\* BLOCK_SIZE of voice_mod_high_quality.py (line 14) and of
\* voice_mod_separate_devices.py (line 13)
BLOCK_SIZE_hq == 1024
BLOCK_SIZE_sd == 512

\* blocks delivered to the three programs side by side
VariantCalls == 2

\* pitch_shift_fast(audio, semitones) when the samples of the block that are
\* not kept make element `at` of a transformed block come out as v
ShiftedWith(block, semitones, v) ==
  LET rs == pitch_shift_fast(block, semitones)
  IN CHOOSE r \in rs : Cardinality(rs) = 1 \/ r.out.val = v

\* audio_callback of voice_mod_experimental.py (lines 90-133) on the block m,
\* run from entry to return with the parameters p and the cursor at cidx
audio_callback(m, p, cidx, v) ==
  IF Gated(p.ptt, p.talking)
  THEN [carrier_idx |-> cidx, path |-> "muted", ran |-> {},
        outdata |-> [ch0 |-> Silence(m.len, m.at), ch1 |-> Silence(m.len, m.at)]]
  ELSE LET sh == IF WantsShift(p.pitch) THEN ShiftedWith(m, p.pitch, v)
                 ELSE [raised |-> FALSE, out |-> m]
           f == Finish(m, FixLength(sh.out, m.len), m.len, p.robotic, cidx)
           shift == IF WantsShift(p.pitch) THEN {"shift"} ELSE {}
       IN IF sh.raised
          THEN [carrier_idx |-> cidx, path |-> "fallback", ran |-> shift,
                outdata |-> Passthrough(m)]
          ELSE [carrier_idx |-> f.carrier_idx, path |-> f.path,
                ran |-> shift \cup (IF f.called THEN {"robotic"} ELSE {})
                             \cup (IF f.path = "processed" THEN {"gain"} ELSE {}),
                outdata |-> f.outdata]

\* audio_callback of voice_mod_high_quality.py (lines 88-124): no gate; its
\* pitch_shift_fast, apply_robotic_effect, gain, clip and passthrough are
\* the statements of voice_mod_experimental.py
audio_callback_hq(m, p, cidx, v) ==
  LET sh == IF Abs(p.pitch) > 1 THEN ShiftedWith(m, p.pitch, v)
            ELSE [raised |-> FALSE, out |-> m]
      f == Finish(m, FixLength(sh.out, m.len), m.len, p.robotic, cidx)
      shift == IF Abs(p.pitch) > 1 THEN {"shift"} ELSE {}
  IN IF sh.raised
     THEN [carrier_idx |-> cidx, path |-> "fallback", ran |-> shift,
           outdata |-> Passthrough(m)]
     ELSE [carrier_idx |-> f.carrier_idx, path |-> f.path,
           ran |-> shift \cup (IF f.called THEN {"robotic"} ELSE {})
                        \cup (IF f.path = "processed" THEN {"gain"} ELSE {}),
           outdata |-> f.outdata]

\* audio_callback of voice_mod_separate_devices.py (lines 90-124): as the
\* high-quality one
audio_callback_sd(m, p, cidx, v) ==
  LET sh == IF Abs(p.pitch) > 1 THEN ShiftedWith(m, p.pitch, v)
            ELSE [raised |-> FALSE, out |-> m]
      f == Finish(m, FixLength(sh.out, m.len), m.len, p.robotic, cidx)
      shift == IF Abs(p.pitch) > 1 THEN {"shift"} ELSE {}
  IN IF sh.raised
     THEN [carrier_idx |-> cidx, path |-> "fallback", ran |-> shift,
           outdata |-> Passthrough(m)]
     ELSE [carrier_idx |-> f.carrier_idx, path |-> f.path,
           ran |-> shift \cup (IF f.called THEN {"robotic"} ELSE {})
                        \cup (IF f.path = "processed" THEN {"gain"} ELSE {}),
           outdata |-> f.outdata]

\* what a callback's return r leaves in the program c
Returned(c, r) ==
  [c EXCEPT !.carrier_idx = r.carrier_idx, !.path = r.path, !.ran = r.ran,
            !.outdata = r.outdata]

\* the same block m delivered to each of the three programs
BlockInAll(w, m, v) ==
  [w EXCEPT
     !.ptt = Returned(w.ptt, audio_callback(m, w.ptt, w.ptt.carrier_idx, v)),
     !.hq = Returned(w.hq, audio_callback_hq(m, w.hq, w.hq.carrier_idx, v)),
     !.sd = Returned(w.sd, audio_callback_sd(m, w.sd, w.sd.carrier_idx, v)),
     !.calls = w.calls + 1]

\* block lengths delivered side by side: the three programs' block sizes and
\* one longer than two carrier tables
VariantLens == {BLOCK_SIZE, BLOCK_SIZE_sd, BLOCK_SIZE_hq,
                2 * carrier_table_size + BLOCK_SIZE}

\* get_key() returns key in each of the three control loops; the run side by
\* side ends once a key of the push-to-talk program alone has been read
VariantsKey(key) ==
  /\ variants.clean
  /\ variants.ptt.pc \in {"poll", "next1", "next2"}
  /\ LET w == KeyInAll(variants, key)
     IN /\ w.ptt.pitch \in PitchLo..PitchHi
        /\ w.hq.pitch \in PitchLo..PitchHi
        /\ w.sd.pitch \in PitchLo..PitchHi
        /\ variants' = w
  /\ UNCHANGED <<params, control, audio, cursor0, gate_held, keylog>>

\* the drivers call the three callbacks with the same block, between two keys
VariantsBlock(n, x, v) ==
  /\ variants.clean
  /\ variants.calls < VariantCalls
  /\ variants.ptt.pc # "exit"
  /\ variants' = BlockInAll(variants, Arr(n, n - 1, x), v)
  /\ UNCHANGED <<params, control, audio, cursor0, gate_held, keylog>>

\* the sample followed side by side: a full-scale one
VariantSamples == {ONE}

NextVariants ==
  \/ \E key \in Keys \cup {NoKey} : VariantsKey(key)
  \/ \E n \in VariantLens, x \in VariantSamples :
       \E v \in SpectralVals(Arr(n, n - 1, x)) : VariantsBlock(n, x, v)

SpecVariants == Init /\ [][NextVariants]_vars

\* ------------------------------------------------------------------- claims
InRange(a) == -ClipLimit <= a.val /\ a.val <= ClipLimit

\* C1: a callback that has read push_to_talk_enabled true and then reads
\* is_talking false returns at once with frames zeros in both channels,
\* whatever the block, the pitch and the robotic switch are, and runs no
\* shift, robotic effect or gain and leaves the cursor alone.
C1_GateSilences ==
  [][(cb_pc = "gate" /\ ~is_talking /\ cb_pc' # cb_pc) =>
       /\ cb_pc' = "idle"
       /\ path' = "muted"
       /\ outdata'.ch0 = Arr(frames, mono.at, 0)
       /\ outdata'.ch1 = Arr(frames, mono.at, 0)
       /\ ran' = {}
       /\ carrier_idx' = carrier_idx
       /\ total' = total]_vars

C1_Witness ==
  /\ path = "muted"
  /\ mono.val # 0
  /\ robotic_enabled
  /\ current_pitch # 0
  /\ outdata.ch0.val = 0

\* C2: when a callback has returned, every sample of both channels is within
\* [-0.95, 0.95], on the muted, the processed and the passthrough path.
C2_OutputInRange ==
  (cb_pc = "idle" /\ path \in {"muted", "processed", "fallback"}) =>
    (InRange(outdata.ch0) /\ InRange(outdata.ch1))

\* C3: a callback in which a step of the pipeline raised has still returned,
\* with both channels holding the mono input times 1.5, not clipped; and a
\* callback made after one that raised is processed as usual: frames samples
\* in both channels, equal, and within the clip limits.
C3_FallbackIsPassthrough ==
  /\ path = "fallback" =>
       /\ cb_pc = "idle"
       /\ outdata.ch0 = outdata.ch1
       /\ outdata.ch0.len = mono.len
       /\ outdata.ch0.at = mono.at
       /\ 2 * outdata.ch0.val = 3 * mono.val
  /\ (faults > 0 /\ path = "processed") =>
       /\ cb_pc = "idle"
       /\ outdata.ch0 = outdata.ch1
       /\ outdata.ch0.len = frames
       /\ InRange(outdata.ch0)

C3_Witness ==
  /\ faults = 1
  /\ calls = 2
  /\ path = "processed"
  /\ "robotic" \in ran

\* C4: the carrier cursor is always at least 0 and less than the table size,
\* whatever lengths the blocks have.
C4_CursorInTable == 0 <= carrier_idx /\ carrier_idx < carrier_table_size

C4_Witness ==
  /\ seg.want > carrier_table_size
  /\ total > 2 * carrier_table_size
  /\ calls = 2
  /\ cb_pc = "idle"

\* C5: after carrier requests whose lengths sum to total, the cursor is the
\* starting cursor plus total, modulo the table size: a function of the sum
\* alone, however it was split into requests.
C5_CursorIsSumModTable ==
  carrier_idx = (cursor0 + total) % carrier_table_size

C5_Witness ==
  /\ calls = MaxRequests
  /\ total > 2 * carrier_table_size
  /\ seg.want = 1
  /\ cursor0 # 0

\* C6: the carrier segment of every request has exactly the requested number
\* of samples, and the robotic effect does not raise.
C6_SegmentHasRequestedLength ==
  calls > 0 => (CarrierLen(seg.carrier) = seg.want /\ path # "raised")

\* C7: for a request of at most the table size, sample j of the segment is
\* table[(cursor + j) mod tableSize]; a request that ends exactly at the
\* table's end is the tail alone and leaves the cursor at 0; and each segment
\* starts where the one before it ended, so successive segments read the
\* table round and round without a gap or a repeat.
C7_ContiguousRead ==
  (calls > 0 /\ seg.want <= carrier_table_size) =>
    /\ CarrierLen(seg.carrier) = seg.want
    /\ \A j \in 0..(seg.want - 1) :
         CarrierAt(seg.carrier, j) = (seg.start + j) % carrier_table_size
    /\ seg.start + seg.want = carrier_table_size =>
         (Len(seg.carrier) = 1 /\ carrier_idx = 0)
    /\ seg.start = (cursor0 + total - seg.want) % carrier_table_size
    /\ carrier_idx = (seg.start + seg.want) % carrier_table_size

C7_Witness ==
  /\ calls = 2
  /\ seg.start = BLOCK_SIZE
  /\ seg.want = carrier_table_size
  /\ Len(seg.carrier) = 2
  /\ carrier_idx = BLOCK_SIZE

\* C8: a step of the audio callback leaves pitch, robotic_enabled,
\* push_to_talk_enabled and is_talking as they are, and a step of the control
\* thread leaves the carrier cursor as it is.
C8_SingleWriter ==
  [][(AudioThread => UNCHANGED params) /\
     (ControlThread => carrier_idx' = carrier_idx)]_vars

C8_Witness ==
  /\ carrier_idx # 0
  /\ main_pc = "poll"
  /\ push_to_talk_enabled
  /\ is_talking
  /\ current_pitch # PITCH_SHIFT

\* C9: whenever get_key() returns q, at the top of the loop or as the first or
\* second key after an ESC, the control loop is left.
C9_EveryQQuits ==
  [][(GetKey("q") \/ ReadNext1("q") \/ ReadNext2("q")) => main_pc' = "exit"]_vars

\* C10: when main() has ended after leaving the loop by q, by an interrupt or
\* by an error of get_key(), the stream has been closed, once; it is never
\* closed twice; and once it is closed no callback is made or goes on.
C10_ReleasedOnce ==
  [][/\ (main_pc' = "done" /\ exit_reason' \in {"quit", "interrupt", "error"}) =>
          (stream' = "closed" /\ released' = 1)
     /\ released' <= 1
     /\ stream = "closed" => (cb_pc = "idle" /\ UNCHANGED audio)]_vars

C10_Witness ==
  /\ main_pc = "done"
  /\ exit_reason = "interrupt"
  /\ released = 1
  /\ calls > 0

Outcome(c) == <<c.pitch, c.robotic, c.ptt, c.talking, c.pc = "exit">>

\* the control loop c after two more keys
AfterTwo(c, k2, k3) == MainLoop_ptt(MainLoop_ptt(c, k2), k3)

\* C12: whenever the control loop is back at its poll, the pitch is 3.0 plus
\* 0.5 for every +, = and up-arrow press and minus 0.5 for every -, _ and
\* down-arrow press since the last 0 press (or since the start), so a 0 press
\* leaves it at exactly 3.0; and a +, =, -, _ or 0 leaves robotic_enabled,
\* push_to_talk_enabled and is_talking as they were.
C12_PitchIsNetPresses ==
  [][/\ variants'.ptt.pc = "poll" =>
          variants'.ptt.pitch = PITCH_SHIFT + 5 * keylog'.net
     /\ \A k \in {"+", "=", "-", "_", "0"} : KeysStep(k) =>
          /\ variants'.ptt.robotic = variants.ptt.robotic
          /\ variants'.ptt.ptt = variants.ptt.ptt
          /\ variants'.ptt.talking = variants.ptt.talking]_vars

\* C13: when the last two keys read were ESC and [ and the key now read is A
\* the pitch goes up by exactly 0.5, and when it is B the pitch goes down by
\* exactly 0.5, wherever in the loop the three keys are read and whatever
\* polls timed out between them; and none of ESC, [, A and B changes
\* robotic_enabled, push_to_talk_enabled or is_talking or leaves the loop.
C13_ArrowKeys ==
  [][/\ (keylog.arrow = 2 /\ KeysStep("A")) =>
          variants'.ptt.pitch = variants.ptt.pitch + 5
     /\ (keylog.arrow = 2 /\ KeysStep("B")) =>
          variants'.ptt.pitch = variants.ptt.pitch - 5
     /\ \A k \in {"ESC", "[", "A", "B"} : KeysStep(k) =>
          /\ variants'.ptt.robotic = variants.ptt.robotic
          /\ variants'.ptt.ptt = variants.ptt.ptt
          /\ variants'.ptt.talking = variants.ptt.talking
          /\ variants'.ptt.pc # "exit"]_vars

\* C14: a key outside the key table, and a poll that returns no key, leaves
\* the four parameters as they were, calls print_status() not at all, leaves
\* the loop running, and leaves every two keys that follow with the outcome
\* they would have had without it.
C14_UnknownKeyIsNoOp ==
  [][\A k \in {"x", NoKey} : KeysStep(k) =>
       /\ Outcome(variants'.ptt) = Outcome(variants.ptt)
       /\ ~keylog'.printed
       /\ variants'.ptt.pc \in {"poll", "next1", "next2"}
       /\ \A k2, k3 \in Keys \cup {NoKey} :
            Outcome(AfterTwo(variants'.ptt, k2, k3)) =
              Outcome(AfterTwo(variants.ptt, k2, k3))]_vars

\* C15: a callback that has returned with robotic_enabled false, the pitch
\* 0.0 and the gate not muting has written clip(input * 2.2, -0.95, 0.95),
\* sample for sample, to both channels, which are equal, has run neither the
\* shifter nor the robotic effect, and has left the carrier cursor where it
\* was.
C15_DryPathIsGainAndClip ==
  (/\ cb_pc = "idle"
   /\ path # "none"
   /\ ~robotic_enabled
   /\ current_pitch = 0
   /\ ~(push_to_talk_enabled /\ ~is_talking)) =>
    /\ path = "processed"
    /\ ran = {"gain"}
    /\ outdata.ch0 = outdata.ch1
    /\ outdata.ch0.len = frames
    /\ outdata.ch0.at = mono.at
    /\ LET x == 22 * mono.val
           y == 10 * outdata.ch0.val
       IN IF x > 10 * ClipLimit THEN y = 10 * ClipLimit
          ELSE IF x < -(10 * ClipLimit) THEN y = -(10 * ClipLimit)
          ELSE Abs(y - x) <= 5
    /\ carrier_idx = cursor0

C15_Witness ==
  /\ cb_pc = "idle"
  /\ path = "processed"
  /\ ~robotic_enabled
  /\ current_pitch = 0
  /\ push_to_talk_enabled /\ is_talking
  /\ calls = 2
  /\ frames > 2 * carrier_table_size
  /\ mono.val = ONE \div 10
  /\ outdata.ch0.val # 0

\* what a program without push-to-talk has in common with the one that has
\* it: pitch, robotic switch, cursor, place in the loop, and the last
\* callback's decisions and output
Common(c) ==
  <<c.pitch, c.robotic, c.carrier_idx, c.pc, c.next1, c.path, c.ran, c.outdata>>

\* C16: run side by side on the same keys and the same blocks, the
\* high-quality and the separate-devices program are always in the same
\* state, and as long as no p, P or space was read the push-to-talk program
\* has the same pitch, robotic switch and cursor as they have and its last
\* callback shifted or not, applied the robotic effect or not, ended
\* processed or in the passthrough, and wrote the same output, as theirs;
\* and a p, P or space changes neither pitch, robotic switch nor cursor of
\* the two programs without push-to-talk.
C16_VariantsAgree ==
  [][/\ Common(variants'.hq) = Common(variants'.sd)
     /\ variants'.clean => Common(variants'.ptt) = Common(variants'.hq)
     /\ \A k \in {"p", "P", " "} : VariantsKey(k) =>
          /\ variants'.hq.pitch = variants.hq.pitch
          /\ variants'.hq.robotic = variants.hq.robotic
          /\ variants'.hq.carrier_idx = variants.hq.carrier_idx
          /\ variants.hq.pc = "poll" => variants'.hq = variants.hq
          /\ variants.sd.pc = "poll" => variants'.sd = variants.sd]_vars

C16_Witness ==
  /\ variants.clean
  /\ variants.calls = VariantCalls
  /\ variants.ptt.pitch # PITCH_SHIFT
  /\ variants.hq.carrier_idx = (2 * BLOCK_SIZE_hq) % carrier_table_size
  /\ variants.sd.path = "processed"
  /\ variants.ptt.ran = {"shift", "robotic", "gain"}
  /\ variants.ptt.outdata.ch0.val # 0

\* C17: a space read at the top of the loop flips is_talking when
\* push_to_talk_enabled is true and changes none of the four parameters when
\* it is false; and whenever the control loop is about to call get_key(), at
\* the top of the loop or after an ESC, is_talking true implies
\* push_to_talk_enabled true.
C17_TalkingNeedsPtt ==
  [][/\ GetKey(" ") =>
          /\ is_talking' = IF push_to_talk_enabled THEN ~is_talking ELSE is_talking
          /\ push_to_talk_enabled' = push_to_talk_enabled
          /\ current_pitch' = current_pitch
          /\ robotic_enabled' = robotic_enabled
          /\ main_pc' = "poll"
     /\ main_pc' \in {"poll", "next1", "next2"} =>
          (is_talking' => push_to_talk_enabled')]_vars

C17_Witness ==
  /\ main_pc = "next2"
  /\ is_talking
  /\ push_to_talk_enabled
  /\ path = "processed"
  /\ calls = 2

\* C18: the carrier cursor changes only in the step of a callback that reads
\* robotic_enabled, which a muted callback never reaches: there it becomes
\* cursor + frames modulo the table size when robotic_enabled is read true
\* and stays when it is read false; so the cursor is always the sum of the
\* block lengths of the callbacks that read robotic_enabled true, modulo the
\* table size.
C18_CursorMovesWithRobotic ==
  [][/\ (cb_pc = "robotic" /\ cb_pc' = "idle") =>
          /\ path # "muted"
          /\ carrier_idx' = IF robotic_enabled
                            THEN (carrier_idx + frames) % carrier_table_size
                            ELSE carrier_idx
          /\ total' = IF robotic_enabled THEN total + frames ELSE total
     /\ ~(cb_pc = "robotic" /\ cb_pc' = "idle") =>
          (carrier_idx' = carrier_idx /\ total' = total)
     /\ path' = "muted" => carrier_idx' = carrier_idx
     /\ carrier_idx' = (cursor0 + total') % carrier_table_size]_vars

C18_Witness ==
  /\ calls = 2
  /\ cb_pc = "idle"
  /\ path = "processed"
  /\ "robotic" \notin ran
  /\ carrier_idx = BLOCK_SIZE
  /\ total = BLOCK_SIZE

\* C19 as claimed: a callback that the gate has silenced had
\* push_to_talk_enabled true and is_talking false together at some instant
\* between its entry and its gate.
C19_GateHeldAtSomeInstant ==
  (cb_pc = "idle" /\ path = "muted") => gate_held

\* C19 as amended: a callback is silenced only if push_to_talk_enabled was
\* true at the instant the callback read it and is_talking was false at the
\* later instant the same callback read it; the two need not have held
\* together.
C19_GateReadsWereTrue ==
  [][/\ (cb_pc' = "gate" /\ cb_pc # "gate") =>
          (cb_pc = "idle" /\ push_to_talk_enabled)
     /\ (path' = "muted" /\ path # "muted") =>
          (cb_pc = "gate" /\ ~is_talking)
     /\ (cb_pc = "gate" /\ cb_pc' = "pitch_test") => is_talking]_vars

C19_Witness ==
  /\ cb_pc = "idle"
  /\ path = "muted"
  /\ ~gate_held
  /\ ~push_to_talk_enabled
  /\ main_pc = "poll"

\* C20: the pitch is always a whole number of half semitones, so it is never
\* strictly between 0 and 0.5 in size; on every pitch the program reaches
\* the callback's test (line 107) shifts exactly when the shifter's test
\* (line 30) does not bypass, which is exactly when the pitch is not 0.0; and
\* a callback goes on to the shifter exactly when the pitch it tests is not
\* 0.0 and takes mono as it is exactly when it is 0.0.
C20_PitchIsHalfSteps ==
  [][/\ current_pitch' % 5 = 0
     /\ ~(0 < Abs(current_pitch') /\ Abs(current_pitch') < 5)
     /\ WantsShift(current_pitch') <=> ~ShifterBypasses(current_pitch')
     /\ WantsShift(current_pitch') <=> current_pitch' # 0
     /\ (cb_pc = "pitch_test" /\ cb_pc' # cb_pc) =>
          /\ cb_pc' = "pitch_arg" <=> current_pitch # 0
          /\ cb_pc' = "robotic" <=> current_pitch = 0
          /\ current_pitch = 0 => shifted' = mono
     /\ (cb_pc = "pitch_arg" /\ cb_pc' # cb_pc /\ current_pitch = 0) =>
          shifted' = mono]_vars

C20_Witness ==
  /\ cb_pc = "pitch_arg"
  /\ current_pitch = 5
  /\ calls = 2
  /\ path = "running"
  /\ mono.val # 0

\* what lines 107-116 leave when current_pitch[0] is read once, as p, and
\* that one value serves both the test and the shifter
SnapshotShift(block, p, n) ==
  IF WantsShift(p)
  THEN {IF r.raised THEN [raised |-> TRUE, shifted |-> NoArr]
        ELSE [raised |-> FALSE, shifted |-> FixLength(r.out, n)] :
          r \in pitch_shift_fast(block, p)}
  ELSE {[raised |-> FALSE, shifted |-> block]}

\* C21: the callback reads current_pitch[0] for the test (line 107) and again
\* as the shifter's argument (line 108), and the control thread may write it
\* in between; whichever step settles the block, the bypass after the test or
\* the shifter's return, what it leaves (shifted, or the shifter's exception)
\* is what a callback would leave that read the pitch once at that very
\* instant and used the value for both the test and the shifter.
C21_TornPitchIsOneSnapshot ==
  [][/\ (cb_pc = "pitch_test" /\ cb_pc' = "robotic") =>
          [raised |-> FALSE, shifted |-> shifted']
            \in SnapshotShift(mono, current_pitch, frames)
     /\ (cb_pc = "pitch_arg" /\ cb_pc' # "pitch_arg") =>
          /\ [raised |-> (path' = "fallback"), shifted |-> shifted']
               \in SnapshotShift(mono, current_pitch, frames)
          /\ current_pitch = 0 => (shifted' = mono /\ cb_pc' = "robotic")
          /\ current_pitch' = current_pitch]_vars

\* the test passed on a pitch that was not 0.0, the 0 key came before the
\* second read, and the shifter returned the block as it was
C21_Witness ==
  /\ cb_pc = "robotic"
  /\ "shift" \in ran
  /\ current_pitch = 0
  /\ shifted = mono
  /\ mono.val \notin SpectralVals(mono)
  /\ main_pc = "poll"

====
